---- MODULE Spec2Model ----
(***************************************************************************)
(* A model of tccst: the typing session engine (src/src/gamestate.rs), the *)
(* word sampler (src/src/words.rs), the command line (src/src/config.rs)   *)
(* and the driver (src/src/main.rs).                                       *)
(*                                                                         *)
(* Strings are sequences of characters.  A character is a one-character    *)
(* string; "U" stands for a scalar value whose UTF-8 encoding takes two    *)
(* bytes (such as U+00E9), every other character takes one byte.  Rust's   *)
(* String::len() counts bytes and chars() iterates over scalar values, and *)
(* the code mixes the two, so the model keeps both measures.               *)
(*                                                                         *)
(* Time is counted in whole seconds.  Running(Instant) is modelled by the  *)
(* time elapsed since the instant was taken, which is all the code ever    *)
(* reads of it (now.elapsed()).  The accuracy, an f32, is modelled as an   *)
(* exact fraction [num, den]; the speeds are computed in IEEE 754 binary32 *)
(* arithmetic (24-bit significand, round to nearest, ties to even), an f32 *)
(* being [kind, m, e] of value m * 2^e.                                    *)
(***************************************************************************)
EXTENDS Integers, Sequences, FiniteSets, TLC

\* ------------------------------------------------------------------ bounds
\* The longest target text, in bytes.
MaxTextBytes == 4
\* The largest number of words given to Game::new.
MaxWords == 2
\* The mistake counter is a usize; the model stops counting here.
MaxMistakes == 3
\* The longest time, in seconds, a session stays Running.
MaxElapsed == 1
\* SpecLong: the number of characters of the one word of the target, and
\* where the model stops counting mistakes.
LongWordLen == 3
LongMaxMistakes == 6
\* SpecDriver: the most arguments after the program name, and the most
\* sessions the driver is followed through.
MaxArgs == 3
MaxSessions == 2
\* SpecDriver: where the model stops counting the mistakes of a session.
DriverMaxMistakes == 1
\* SpecWords: the longest content of a file, in characters, and the largest
\* word count of a configuration.
MaxCodeLen == 3
MaxWordCount == 2
\* SpecTokens: the longest content given to code_to_words, in characters.
MaxTokCodeLen == 5
\* SpecStats: the most characters of the target, and the most whole
\* seconds a session runs before it is finished.
MaxStatChars == 29
MaxStatSecs == 29

\* usize::MAX, the result of casting an infinite f32 to usize (the cast
\* saturates); 2^31 - 1 stands for it, the largest integer TLC holds.
USIZE_MAX == 2147483647

\* ------------------------------------------------------------- characters
\* The characters words are made of.
WordLetters == {"a", "U"}
\* The characters a key event can carry (KeyCode::Char(c)).
Keys == {"a", "b", " ", "U"}
\* Option::None of an Option<char>.
None == "None"

\* char::len_utf8
Utf8Len(c) == IF c = "U" THEN 2 ELSE 1

\* String::len(): the length in bytes.
RECURSIVE StrLen(_)
StrLen(s) == IF s = <<>> THEN 0 ELSE Utf8Len(Head(s)) + StrLen(Tail(s))

\* s.chars().count()
CharCount(s) == Len(s)

\* s.chars().skip(n).next()
SkipNext(s, n) == IF n < Len(s) THEN s[n + 1] ELSE None

\* s.chars().take(n).last()
TakeLast(s, n) ==
    IF n = 0 \/ Len(s) = 0 THEN None
    ELSE IF n < Len(s) THEN s[n] ELSE s[Len(s)]

\* s.chars().skip(n).take_while(|&c| c != ' ').count()
RECURSIVE TakeWhileNotSpaceCount(_, _)
TakeWhileNotSpaceCount(s, n) ==
    IF n < Len(s) /\ s[n + 1] # " "
    THEN 1 + TakeWhileNotSpaceCount(s, n + 1)
    ELSE 0

\* (0..n).for_each(|_| s.push(' '))
Spaces(n) == [i \in 1..n |-> " "]

\* String::pop(): the string without its last character (None if empty).
StrPop(s) == IF s = <<>> THEN s ELSE SubSeq(s, 1, Len(s) - 1)

\* words.join(" ")
RECURSIVE Join(_)
Join(ws) ==
    IF ws = <<>> THEN <<>>
    ELSE IF Len(ws) = 1 THEN ws[1]
    ELSE ws[1] \o <<" ">> \o Join(Tail(ws))

\* The word lists a session is built from: tokens are non-empty and hold no
\* whitespace (words.rs, code_to_words), and there is at least one of them
\* (config.rs rejects a word count of zero).
WordSet == UNION {[1..n -> WordLetters] : n \in 1..MaxTextBytes}
WordLists ==
    {ws \in UNION {[1..n -> WordSet] : n \in 1..MaxWords} :
        StrLen(Join(ws)) <= MaxTextBytes}

\* ------------------------------------------------------------------ state
VARIABLES text, word_count, input, mistakes, state, strict, skip_word_on_space,
          typed, limit

\* The word sampler (words.rs) and the driver (main.rs): pc is the position
\* of the program, args the command line, cfg the result of
\* Config::from_args, max_len the character budget (w * h), disk the files
\* under the project path, files the candidates not tried yet, code and
\* tokens the locals `code` and `words` of the last iteration of the loop
\* of words(), outcome what words() returned, selected_words the words the
\* driver holds.  tried and sessions are history variables: the files
\* examined so far, and the number of sessions the driver has constructed.
VARIABLES pc, args, cfg, max_len, disk, files, tried, code, tokens, outcome,
          selected_words, sessions

driver == <<pc, args, cfg, max_len, disk, files, tried, code, tokens, outcome,
            selected_words, sessions>>

vars == <<text, word_count, input, mistakes, state, strict, skip_word_on_space,
          typed, limit, driver>>

\* The fields of Game no method assigns after Game::new, and limit, which
\* is no field of Game: the value at which the model stops counting the
\* mistakes of this session.
config == <<text, word_count, strict, skip_word_on_space, limit, driver>>

\* words() has not returned.
Pending == [tag |-> "Pending"]

\* A session used as a library, as the unit tests do: no driver, no sampler.
NoDriver ==
    /\ pc = "lib"
    /\ args = <<>>
    /\ cfg = [tag |-> "None"]
    /\ max_len = 0
    /\ disk = <<>>
    /\ files = {}
    /\ tried = <<>>
    /\ code = <<>>
    /\ tokens = <<>>
    /\ outcome = Pending
    /\ selected_words = <<>>
    /\ sessions = 0

\* typed is a history variable, not a field of Game: the number of
\* characters pushed so far when the calls made since Game::new are exactly
\* push(text[1]), push(text[2]), ... in order, and OffScript otherwise.
OffScript == 0 - 1
TypedAfterPush(c) ==
    IF typed # OffScript /\ typed < Len(text) /\ c = text[typed + 1]
    THEN typed + 1
    ELSE OffScript

\* Game::text_chars: the characters of the text.
text_chars == text

\* GameState::Running(Instant), by the time elapsed since the instant.
Running(e) == [tag |-> "Running", elapsed |-> e]

\* f32 values: a finite one is m * 2^e with 0 <= m < 2^24.
F32Num(m, e) == [kind |-> "num", m |-> m, e |-> e]
F32Inf == [kind |-> "inf", m |-> 0, e |-> 0]
F32NaN == [kind |-> "nan", m |-> 0, e |-> 0]

\* `n as f32` for an integer n < 2^24 (exact).
F32FromInt(n) == F32Num(n, 0)

\* The f32 nearest to x * 2^e (ties to even), where g is the bit dropped
\* last and s tells whether a bit dropped before it was set.
RECURSIVE F32Round(_, _, _, _)
F32Round(x, e, g, s) ==
    IF x >= 2^24 THEN F32Round(x \div 2, e + 1, x % 2, s \/ g = 1)
    ELSE IF g = 1 /\ (s \/ x % 2 = 1)
         THEN (IF x + 1 = 2^24 THEN F32Num(2^23, e + 1) ELSE F32Num(x + 1, e))
         ELSE F32Num(x, e)

\* Long division: the quotient q of 2^k times the dividend by b, carried
\* on until q has 26 bits, with the remainder r.
RECURSIVE LongDiv(_, _, _, _)
LongDiv(q, r, b, k) ==
    IF q >= 2^25 THEN [q |-> q, r |-> r, k |-> k]
    ELSE IF 2 * r >= b THEN LongDiv(2 * q + 1, 2 * r - b, b, k + 1)
                       ELSE LongDiv(2 * q, 2 * r, b, k + 1)

\* The f32 division a / b of an f32 a >= 0 by a whole number b >= 0 that
\* an f32 holds exactly.
F32Div(a, b) ==
    IF a.kind # "num" THEN a
    ELSE IF b = 0 THEN (IF a.m = 0 THEN F32NaN ELSE F32Inf)
    ELSE IF a.m = 0 THEN a
    ELSE LET d == LongDiv(a.m \div b, a.m % b, b, 0)
         IN  F32Round(d.q, a.e - d.k, 0, d.r # 0)

\* The f32 product of `n as f32`, n a small whole number, and an f32 q >= 0.
F32MulInt(n, q) ==
    IF q.kind = "nan" THEN q
    ELSE IF q.kind = "inf" THEN (IF n = 0 THEN F32NaN ELSE F32Inf)
    ELSE F32Round(n * q.m, q.e, 0, FALSE)

\* Game::cpm for a text of n characters: n as f32 * (60.0 / dur.as_secs_f32()),
\* dur a whole number of seconds.
CpmOf(n, dur) == F32MulInt(n, F32Div(F32FromInt(60), dur))

\* Game::cpm
cpm(dur) == CpmOf(CharCount(text), dur)

\* Game::wpm: self.cpm(dur) / 5.0
wpm(dur) == F32Div(cpm(dur), 5)

\* `f as usize`: truncates, saturates at usize::MAX, NaN gives 0.
AsUsize(f) ==
    IF f.kind = "nan" THEN 0
    ELSE IF f.kind = "inf" THEN USIZE_MAX
    ELSE IF f.e >= 0 THEN f.m * 2^(f.e)
    ELSE IF 0 - f.e >= 31 THEN 0
    ELSE f.m \div 2^(0 - f.e)

\* Accuracy without the test `a < 0.0`.
Accuracy_NoClamp(m, char_count) ==
    [num |-> 100 * char_count - 100 * m, den |-> char_count]

\* The accuracy computed by Game::finish, an f32 as a fraction of
\* denominator char_count: 100 - (mistakes / char_count) * 100, and 0 when
\* that is negative.  For an empty text the quotient is m / 0: NaN, kept
\* as 0 / 0, when m = 0, and infinite when m > 0, which gives 0.
Accuracy(m, char_count) ==
    LET a == 100 * char_count - 100 * m
    IN  IF char_count = 0 /\ m > 0 THEN [num |-> 0, den |-> 1]
        ELSE [num |-> IF a < 0 THEN 0 ELSE a, den |-> char_count]

\* Game::finish, as the state it leaves: st is self.state, m is self.mistakes.
FinishState(st, m) ==
    IF st.tag = "Running"
    THEN [tag        |-> "Finished",
          elapsed    |-> st.elapsed,
          wpm        |-> AsUsize(wpm(st.elapsed)),
          cpm        |-> AsUsize(cpm(st.elapsed)),
          word_count |-> word_count,
          mistakes   |-> m,
          accuracy   |-> Accuracy(m, Len(text_chars))]
    ELSE st

\* Game::new
Init ==
    \E ws \in WordLists :
        /\ text = Join(ws)
        /\ word_count = Len(ws)
        /\ input = <<>>
        /\ mistakes = 0
        /\ state = Running(0)
        /\ strict \in BOOLEAN
        /\ skip_word_on_space \in BOOLEAN
        /\ typed = 0
        /\ limit = MaxMistakes
        /\ NoDriver

\* Game::input without the zip: one pair for every typed character.
GameInput_NoZip ==
    [i \in 1..Len(input) |->
        <<input[i], i <= Len(text_chars) /\ input[i] = text_chars[i]>>]

\* Game::input: the typed characters zipped with the text.
GameInput ==
    LET n == IF Len(input) < Len(text_chars) THEN Len(input) ELSE Len(text_chars)
    IN  [i \in 1..n |-> <<input[i], input[i] = text_chars[i]>>]

\* The state at the top of Game::push: stamped anew when nothing is typed.
Restamp == IF StrLen(input) = 0 THEN Running(0) ELSE state

\* The guard of the word-skip arm without the test current_index > 0.
SkipArm_NoIndexTest(c) ==
    /\ skip_word_on_space
    /\ c = " "
    /\ SkipNext(text, StrLen(input)) \notin {None, " "}

\* Game::push takes the word-skip arm for c.
SkipArm(c) ==
    /\ skip_word_on_space
    /\ c = " "
    /\ SkipNext(text, StrLen(input)) \notin {None, " "}
    /\ StrLen(input) > 0

\* Game::push for c evaluates current_index - 1, a usize, with
\* current_index = 0: the subtraction overflows.
PushUnderflow(c) == SkipArm(c) /\ StrLen(input) - 1 < 0

\* In the word-skip arm: the cursor is at the beginning of a word.
AtWordStart == SkipNext(text, StrLen(input) - 1) \in {None, " "}

\* Game::push ignores c: a space on the first character of a word.
IgnoredArm(c) ==
    /\ skip_word_on_space
    /\ c = " "
    /\ SkipNext(text, StrLen(input)) \notin {None, " "}
    /\ (StrLen(input) > 0 => AtWordStart)

\* In the word-skip arm: the number of spaces pushed.
SkipMistakes == TakeWhileNotSpaceCount(text, StrLen(input)) + 1

\* should_quit without the test of self.strict.
ShouldQuit_IgnoresStrict(c) ==
    /\ StrLen(input) + 1 >= StrLen(text) + 1
    /\ c = " "

\* should_quit of Game::push for the character c.
ShouldQuit(c) ==
    /\ ~strict
    /\ StrLen(input) + 1 >= StrLen(text) + 1
    /\ c = " "

\* The mistakes Game::push adds on its normal path for the character c.
PushMistake(c) ==
    IF ~ShouldQuit(c) /\ c # TakeLast(text, StrLen(input) + 1) THEN 1 ELSE 0

\* Game::push calls finish() on its normal path for the character c.
NormalPathFinishes(c) == Append(input, c) = text \/ ShouldQuit(c)

\* Game::push calls finish() on its word-skip path.
SkipPathFinishes == ~strict /\ StrLen(input) + SkipMistakes >= StrLen(text)

\* The trim at the end of Game::push.
Trim(s) == IF StrLen(s) > StrLen(text) THEN StrPop(s) ELSE s

\* Game::push
Push(c) ==
    /\ typed' = TypedAfterPush(c)
    /\ UNCHANGED config
    /\ IF SkipArm(c) /\ ~AtWordStart THEN
           /\ mistakes + SkipMistakes <= limit
           /\ input' = input \o Spaces(SkipMistakes)
           /\ mistakes' = mistakes + SkipMistakes
           /\ state' = IF SkipPathFinishes
                       THEN FinishState(Restamp, mistakes')
                       ELSE Restamp
       ELSE IF IgnoredArm(c) THEN
           /\ state' = Restamp
           /\ UNCHANGED <<input, mistakes>>
       ELSE
           /\ mistakes + PushMistake(c) <= limit
           /\ mistakes' = mistakes + PushMistake(c)
           /\ input' = Trim(Append(input, c))
           /\ state' = IF NormalPathFinishes(c)
                       THEN FinishState(Restamp, mistakes')
                       ELSE Restamp

\* The loop of Game::pop: drop the trailing run of spaces.
RECURSIVE DropTrailingSpaces(_)
DropTrailingSpaces(s) ==
    IF s # <<>> /\ s[Len(s)] = " " THEN DropTrailingSpaces(StrPop(s)) ELSE s

\* Game::pop without the loop: one character removed.
PopResult_OneChar(s) == StrPop(s)

\* Game::pop, as the buffer it leaves.
PopResult(s) ==
    IF s # <<>> /\ s[Len(s)] = " " THEN DropTrailingSpaces(s) ELSE StrPop(s)

\* Game::pop
Pop ==
    /\ input' = PopResult(input)
    /\ typed' = OffScript
    /\ UNCHANGED <<config, mistakes, state>>

\* skip_while(|&c| c != ' ') over the reversed string, as the prefix left.
RECURSIVE DropTrailingNonSpaces(_)
DropTrailingNonSpaces(s) ==
    IF s # <<>> /\ s[Len(s)] # " " THEN DropTrailingNonSpaces(StrPop(s)) ELSE s

\* to_remove of Game::pop_word: a byte length minus a character count.
ToRemove(s) == StrLen(s) - CharCount(DropTrailingNonSpaces(DropTrailingSpaces(s)))

\* Game::pop_word evaluates self.input.len() - count, both usize, to less
\* than zero: the subtraction overflows.
PopWordUnderflow == ToRemove(input) < 0

\* (0..n).for_each(|_| drop(s.pop()))
RECURSIVE PopTimes(_, _)
PopTimes(s, n) == IF n = 0 THEN s ELSE PopTimes(StrPop(s), n - 1)

\* Game::pop_word
PopWord ==
    /\ input' = PopTimes(input, ToRemove(input))
    /\ typed' = OffScript
    /\ UNCHANGED <<config, mistakes, state>>

\* Game::start
Start ==
    /\ state' = Running(0)
    /\ typed' = OffScript
    /\ UNCHANGED <<config, input, mistakes>>

\* Game::finish
Finish ==
    /\ state' = FinishState(state, mistakes)
    /\ typed' = OffScript
    /\ UNCHANGED <<config, input, mistakes>>

\* Time passes while the session runs (Instant::elapsed grows).
Tick ==
    /\ state.tag = "Running"
    /\ state.elapsed < MaxElapsed
    /\ state' = Running(state.elapsed + 1)
    /\ UNCHANGED <<config, input, mistakes, typed>>

PushAny == \E c \in Keys : Push(c)

Next == PushAny \/ Pop \/ PopWord \/ Start \/ Finish \/ Tick

Spec == Init /\ [][Next]_vars

\* Game::new for a single word of LongWordLen characters, with
\* skip_word_on_space on.
InitLong ==
    \E w \in [1..LongWordLen -> WordLetters] :
        /\ text = Join(<<w>>)
        /\ word_count = 1
        /\ input = <<>>
        /\ mistakes = 0
        /\ state = Running(0)
        /\ strict \in BOOLEAN
        /\ skip_word_on_space = TRUE
        /\ typed = 0
        /\ limit = LongMaxMistakes
        /\ NoDriver

\* The calls the driver makes on key events while the session runs.
NextLong == PushAny \/ Pop \/ PopWord

SpecLong == InitLong /\ [][NextLong]_vars

\* Game::new for every word list of Init and for the two that give an empty
\* text: no word, and one empty word.
InitCore ==
    \E ws \in WordLists \cup {<<>>, << <<>> >>} :
        /\ text = Join(ws)
        /\ word_count = Len(ws)
        /\ input = <<>>
        /\ mistakes = 0
        /\ state = Running(0)
        /\ strict \in BOOLEAN
        /\ skip_word_on_space \in BOOLEAN
        /\ typed = 0
        /\ limit = MaxMistakes
        /\ NoDriver

SpecCore == InitCore /\ [][Next]_vars

\* A session on a one-word target of n characters whose timer was stamped
\* e whole seconds ago, with some or no input and mistakes.
InitStats ==
    \E n \in 1..MaxStatChars, e \in 0..MaxStatSecs, m \in 0..1 :
        /\ text = [i \in 1..n |-> "a"]
        /\ word_count = 1
        /\ input = SubSeq(<<"b">>, 1, m)
        /\ mistakes = m
        /\ state = Running(e)
        /\ strict = FALSE
        /\ skip_word_on_space = FALSE
        /\ typed = OffScript
        /\ limit = MaxMistakes
        /\ NoDriver

\* The session is finished: finish() computes the statistics.
SpecStats == InitStats /\ [][Finish]_vars

\* ------------------------------------------------------------ word sampler
\* char::is_whitespace, for the characters of the model.
IsWhitespace(c) == c \in {" ", "\n", "\t"}

\* str::trim_start
RECURSIVE TrimStart(_)
TrimStart(s) ==
    IF s # <<>> /\ IsWhitespace(Head(s)) THEN TrimStart(Tail(s)) ELSE s

\* str::trim_end
RECURSIVE TrimEnd(_)
TrimEnd(s) ==
    IF s # <<>> /\ IsWhitespace(s[Len(s)]) THEN TrimEnd(StrPop(s)) ELSE s

\* str::trim
StrTrim(s) == TrimEnd(TrimStart(s))

\* The longest prefix of whole characters of s that fits in n bytes.
RECURSIVE BytePrefix(_, _)
BytePrefix(s, n) ==
    IF s = <<>> \/ Utf8Len(Head(s)) > n THEN <<>>
    ELSE <<Head(s)>> \o BytePrefix(Tail(s), n - Utf8Len(Head(s)))

\* str::is_char_boundary: the byte index n does not fall inside a character.
IsCharBoundary(s, n) == StrLen(BytePrefix(s, n)) = n

\* code.split('\n'): the lines of the code.
RECURSIVE SplitLines(_)
SplitLines(s) ==
    LET idx == {i \in 1..Len(s) : s[i] = "\n"}
    IN  IF idx = {} THEN <<s>>
        ELSE LET i == CHOOSE i \in idx : \A j \in idx : i <= j
             IN  <<SubSeq(s, 1, i - 1)>> \o SplitLines(SubSeq(s, i + 1, Len(s)))

\* Option::None of an Option<usize>.
NotFound == 0 - 1

\* line.find("//"), as the number of characters before the match.
FindComment(line) ==
    LET idx == {i \in 1..(Len(line) - 1) : line[i] = "/" /\ line[i + 1] = "/"}
    IN  IF idx = {} THEN NotFound
        ELSE (CHOOSE i \in idx : \A j \in idx : i <= j) - 1

\* The closure of code_to_words without the cut: the line as it is.
CutComment_Keep(line) == line

\* The first closure of code_to_words: the line up to its first "//".
CutComment(line) ==
    IF FindComment(line) = NotFound THEN line
    ELSE SubSeq(line, 1, FindComment(line))

\* The number of characters of s before its first whitespace character.
RECURSIVE WordLen(_)
WordLen(s) ==
    IF s = <<>> \/ IsWhitespace(Head(s)) THEN 0 ELSE 1 + WordLen(Tail(s))

\* line.split_whitespace()
RECURSIVE SplitWhitespace(_)
SplitWhitespace(s) ==
    IF s = <<>> THEN <<>>
    ELSE IF IsWhitespace(Head(s)) THEN SplitWhitespace(Tail(s))
    ELSE <<SubSeq(s, 1, WordLen(s))>>
             \o SplitWhitespace(SubSeq(s, WordLen(s) + 1, Len(s)))

\* Iterator::flatten
RECURSIVE Flatten(_)
Flatten(ss) == IF ss = <<>> THEN <<>> ELSE Head(ss) \o Flatten(Tail(ss))

\* code_to_words
CodeToWords(c) ==
    LET lines == SplitLines(c)
    IN  Flatten([i \in 1..Len(lines) |-> SplitWhitespace(CutComment(lines[i]))])

\* choose_words that returns all the words from the random start on.
ChooseWords_ToEnd(words, wc, to) == SubSeq(words, to + 1, Len(words))

\* choose_words, `to` being the number rng.gen_range(0..=max) returned.
ChooseWords(words, wc, to) == SubSeq(words, to + 1, to + wc)

\* The contents code_to_words is given under SpecTokens: every string of
\* at most MaxTokCodeLen of these characters, and the two contents of the
\* unit test get_words.
TokChars == {"a", "/", " ", "\n"}
TokCodes ==
    UNION {[1..n -> TokChars] : n \in 0..MaxTokCodeLen}
        \cup {<<"a", " ", "b", " ", "c">>,
              <<"a", " ", "/", "/", "b", " ", "c", " ", "d">>}

\* No session and no words yet.
NoGame ==
    /\ text = <<>>
    /\ word_count = 0
    /\ input = <<>>
    /\ mistakes = 0
    /\ state = [tag |-> "NoGame"]
    /\ strict = FALSE
    /\ skip_word_on_space = FALSE
    /\ typed = OffScript

\* A content about to be given to code_to_words.
InitTokens ==
    /\ NoGame
    /\ limit = MaxMistakes
    /\ pc = "tokenize"
    /\ code \in TokCodes
    /\ tokens = <<>>
    /\ args = <<>>
    /\ cfg = [tag |-> "None"]
    /\ max_len = 0
    /\ disk = <<>>
    /\ files = {}
    /\ tried = <<>>
    /\ outcome = Pending
    /\ selected_words = <<>>
    /\ sessions = 0

\* The call code_to_words(code).
Tokenize ==
    /\ pc = "tokenize"
    /\ tokens' = CodeToWords(code)
    /\ pc' = "tokenized"
    /\ UNCHANGED <<text, word_count, input, mistakes, state, strict,
                   skip_word_on_space, typed, limit>>
    /\ UNCHANGED <<args, cfg, max_len, disk, files, tried, code, outcome,
                   selected_words, sessions>>

SpecTokens == InitTokens /\ [][Tokenize]_vars

\* The files under the project path, and the characters they hold.
FileNames == {"f1", "f2"}
FileChars == {"a", "U", " "}
FileCodes == UNION {[1..n -> FileChars] : n \in 0..MaxCodeLen}

\* A file: its extension, whether read_to_string can read it (it exists
\* and is valid UTF-8) and its content.  Only the files find_files returns
\* are ever read.
FileRecords ==
    {[ext |-> "rs", readable |-> TRUE, code |-> c] : c \in FileCodes}
        \cup {[ext |-> "rs", readable |-> FALSE, code |-> <<>>],
              [ext |-> "py", readable |-> TRUE, code |-> <<>>]}
Disks == [FileNames -> FileRecords]

\* find_files: the files with the required extension.
FindFiles(d, required_ext) == {f \in DOMAIN d : d[f].ext = required_ext}

\* Result<Vec<String>>, and the unwinding of a panic.
Ok(ws) == [tag |-> "Ok", words |-> ws]
Err(e) == [tag |-> "Err", error |-> e]
Panic == [tag |-> "Panic"]

\* read_to_string(file).expect(..).trim().to_string()
ReadCode(f) == StrTrim(disk[f].code)

\* words() panics on the file f: expect() on a failed read, or the slice
\* code[..max_len] with max_len inside a character.
FilePanics(f) ==
    \/ ~disk[f].readable
    \/ /\ CharCount(ReadCode(f)) > max_len
       /\ ~IsCharBoundary(ReadCode(f), max_len)

\* The local `code` with no truncation.
Truncated_None(f) == ReadCode(f)

\* The local `code` after the truncation.
Truncated(f) ==
    IF CharCount(ReadCode(f)) > max_len
    THEN BytePrefix(ReadCode(f), max_len)
    ELSE ReadCode(f)

\* A call of words(config, max_len) about to be made.
InitWords ==
    /\ NoGame
    /\ limit = MaxMistakes
    /\ pc = "words"
    /\ args = <<>>
    /\ cfg \in {[tag |-> "Ok", word_count |-> w, file_extension |-> "rs",
                  strict |-> FALSE, skip_word_on_space |-> FALSE] :
                     w \in 1..MaxWordCount}
    /\ max_len \in 0..MaxCodeLen
    /\ disk \in Disks
    /\ files = {}
    /\ tried = <<>>
    /\ code = <<>>
    /\ tokens = <<>>
    /\ outcome = Pending
    /\ selected_words = <<>>
    /\ sessions = 0

\* words(), up to its loop.
WordsFind ==
    /\ pc = "words"
    /\ files' = FindFiles(disk, cfg.file_extension)
    /\ IF files' = {}
       THEN outcome' = Err("NoFiles") /\ pc' = "returned"
       ELSE outcome' = outcome /\ pc' = "loop"
    /\ UNCHANGED <<text, word_count, input, mistakes, state, strict,
                   skip_word_on_space, typed, limit>>
    /\ UNCHANGED <<args, cfg, max_len, disk, tried, code, tokens,
                   selected_words, sessions>>

\* One iteration of the loop of words(): f is the file files.choose
\* returns, to the start choose_words draws.
WordsLoop ==
    /\ pc = "loop"
    /\ IF files = {} THEN
           /\ outcome' = Err("InsufficientWords")
           /\ pc' = "returned"
           /\ UNCHANGED <<files, tried, code, tokens>>
       ELSE \E f \in files :
           /\ files' = files \ {f}
           /\ tried' = Append(tried, f)
           /\ IF FilePanics(f) THEN
                  /\ outcome' = Panic
                  /\ pc' = "panicked"
                  /\ UNCHANGED <<code, tokens>>
              ELSE
                  /\ code' = Truncated(f)
                  /\ tokens' = CodeToWords(code')
                  /\ IF Len(tokens') < cfg.word_count THEN
                         /\ pc' = "loop"
                         /\ outcome' = outcome
                     ELSE \E to \in 0..(Len(tokens') - cfg.word_count) :
                         /\ outcome' = Ok(ChooseWords(tokens', cfg.word_count, to))
                         /\ pc' = "returned"
    /\ UNCHANGED <<text, word_count, input, mistakes, state, strict,
                   skip_word_on_space, typed, limit>>
    /\ UNCHANGED <<args, cfg, max_len, disk, selected_words, sessions>>

NextWords == WordsFind \/ WordsLoop

SpecWords == InitWords /\ [][NextWords]_vars

\* ------------------------------------------------------------------ driver
\* The result of a failed s.parse::<usize>().
ParseFail == 0 - 1

\* s.parse::<usize>(), for the strings of the model.
ParseUsize(s) ==
    CASE s = "0" -> 0
      [] s = "1" -> 1
      [] s = "2" -> 2
      [] s = "3" -> 3
      [] OTHER -> ParseFail

\* s.parse::<u8>() or s.parse::<Color>() succeeds.
IsColor(s) == ParseUsize(s) # ParseFail \/ s \in {"green", "dark_grey", "red"}

\* file_extension without a leading '.'.
StripDot(s) == IF s = ".rs" THEN "rs" ELSE IF s = ".py" THEN "py" ELSE s

\* The locals of Config::from_iter before its loop.
ConfigDefaults ==
    [word_count |-> 10, project_path |-> None, file_extension |-> "rs",
     strict |-> FALSE, skip_word_on_space |-> FALSE, argc |-> 0]

\* Config::from_iter after its loop, without the test of word_count.
FromIterEnd_NoZeroTest(c) ==
    IF c.argc <= 1 THEN Err("NeedsHelp")
    ELSE IF c.project_path = None THEN Err("PathMissing")
    ELSE [tag |-> "Ok", word_count |-> c.word_count,
          file_extension |-> c.file_extension, strict |-> c.strict,
          skip_word_on_space |-> c.skip_word_on_space]

\* Config::from_iter after its loop, c being the locals.
FromIterEnd(c) ==
    IF c.argc <= 1 THEN Err("NeedsHelp")
    ELSE IF c.project_path = None THEN Err("PathMissing")
    ELSE IF c.word_count = 0 THEN Err("ZeroWordCount")
    ELSE [tag |-> "Ok", word_count |-> c.word_count,
          file_extension |-> c.file_extension, strict |-> c.strict,
          skip_word_on_space |-> c.skip_word_on_space]

\* The loop of Config::from_iter from the argument as[i] on, c being the
\* locals.
RECURSIVE FromIterLoop(_, _, _)
FromIterLoop(as, i, c) ==
    LET has_next == i + 1 <= Len(as)
        n == [c EXCEPT !.argc = c.argc + 1]
    IN  IF i > Len(as) THEN FromIterEnd(c)
        ELSE IF as[i] \in {"-h", "-?", "--h", "--?"} THEN Err("NeedsHelp")
        ELSE IF as[i] = "-w" THEN
            FromIterLoop(as, i + 2,
                [n EXCEPT !.word_count =
                    IF has_next /\ ParseUsize(as[i + 1]) # ParseFail
                    THEN ParseUsize(as[i + 1]) ELSE 10])
        ELSE IF as[i] = "-t" THEN
            FromIterLoop(as, i + 2,
                [n EXCEPT !.file_extension =
                    IF has_next THEN StripDot(as[i + 1]) ELSE "rs"])
        ELSE IF as[i] = "-ma" THEN FromIterLoop(as, i + 2, n)
        ELSE IF as[i] = "-v" THEN Err("Version")
        ELSE IF as[i] = "-s" THEN FromIterLoop(as, i + 1, [n EXCEPT !.strict = TRUE])
        ELSE IF as[i] = "-ss" THEN
            FromIterLoop(as, i + 1, [n EXCEPT !.skip_word_on_space = TRUE])
        ELSE IF as[i] \in {"-cf", "-cb"} THEN
            IF has_next /\ ~IsColor(as[i + 1]) THEN Err("InvalidColor")
            ELSE FromIterLoop(as, i + 2, n)
        ELSE FromIterLoop(as, i + 1, [n EXCEPT !.project_path = as[i]])

\* Config::from_iter
FromIter(as) == FromIterLoop(as, 1, ConfigDefaults)

\* The outcomes of the loop of words() for the configuration c with the
\* candidates fs left, over every choice of files.choose and choose_words.
RECURSIVE LoopOutcomes(_, _)
LoopOutcomes(fs, c) ==
    IF fs = {} THEN {Err("InsufficientWords")}
    ELSE UNION {
        IF FilePanics(f) THEN {Panic}
        ELSE IF Len(CodeToWords(Truncated(f))) < c.word_count
             THEN LoopOutcomes(fs \ {f}, c)
        ELSE {Ok(ChooseWords(CodeToWords(Truncated(f)), c.word_count, to)) :
                 to \in 0..(Len(CodeToWords(Truncated(f))) - c.word_count)}
        : f \in fs}

\* The outcomes of words(&c, max_len).
WordsOutcomes(c) ==
    IF FindFiles(disk, c.file_extension) = {} THEN {Err("NoFiles")}
    ELSE LoopOutcomes(FindFiles(disk, c.file_extension), c)

\* The command lines: the program name, which the loop of from_iter takes
\* for the project path, and at most MaxArgs arguments.
ArgTokens == {"-w", "0", "1", "2", "-s", "-ss", "-h"}
ArgLists ==
    {<<"tccst">> \o a : a \in UNION {[1..n -> ArgTokens] : n \in 0..MaxArgs}}

\* The files under the project path when the driver runs.
DriverFiles ==
    {[ext |-> "rs", readable |-> TRUE, code |-> <<"a">>],
     [ext |-> "rs", readable |-> TRUE, code |-> <<"a", " ", "U">>],
     [ext |-> "rs", readable |-> TRUE, code |-> <<>>],
     [ext |-> "py", readable |-> TRUE, code |-> <<>>]}

\* The characters of the key events the driver is given.
DriverKeys == {"a", " ", "U", "y", "r", "n"}

\* play() about to run.
InitDriver ==
    /\ NoGame
    /\ limit = DriverMaxMistakes
    /\ pc = "start"
    /\ args \in ArgLists
    /\ cfg = [tag |-> "None"]
    /\ max_len \in 0..MaxCodeLen
    /\ disk \in [FileNames -> DriverFiles]
    /\ files = {}
    /\ tried = <<>>
    /\ code = <<>>
    /\ tokens = <<>>
    /\ outcome = Pending
    /\ selected_words = <<>>
    /\ sessions = 0

\* Game::new that leaves the session Stopped.
GameNew_Stopped(ws, c) ==
    /\ text' = Join(ws)
    /\ word_count' = Len(ws)
    /\ input' = <<>>
    /\ mistakes' = 0
    /\ state' = [tag |-> "Stopped"]
    /\ strict' = c.strict
    /\ skip_word_on_space' = c.skip_word_on_space
    /\ limit' = limit
    /\ sessions' = sessions + 1

\* game = Game::new(&ws, c.strict, c.skip_word_on_space), but for typed.
GameNew(ws, c) ==
    /\ text' = Join(ws)
    /\ word_count' = Len(ws)
    /\ input' = <<>>
    /\ mistakes' = 0
    /\ state' = Running(0)
    /\ strict' = c.strict
    /\ skip_word_on_space' = c.skip_word_on_space
    /\ limit' = limit
    /\ sessions' = sessions + 1

\* The session is left as it is.
SameGame ==
    UNCHANGED <<text, word_count, input, mistakes, state, strict,
                skip_word_on_space, typed, limit, sessions>>

\* play() up to its event loop: from_args, words and Game::new; an Err is
\* returned with `?`, a panic unwinds.
PlayStart ==
    /\ pc = "start"
    /\ cfg' = FromIter(args)
    /\ IF cfg'.tag = "Err" THEN
           /\ pc' = "exit"
           /\ SameGame
           /\ UNCHANGED <<outcome, selected_words>>
       ELSE \E o \in WordsOutcomes(cfg') :
           /\ outcome' = o
           /\ IF o.tag = "Ok" THEN
                  /\ selected_words' = o.words
                  /\ GameNew(o.words, cfg')
                  /\ typed' = 0
                  /\ pc' = "play"
              ELSE
                  /\ pc' = IF o.tag = "Err" THEN "exit" ELSE "panicked"
                  /\ SameGame
                  /\ UNCHANGED selected_words
    /\ UNCHANGED <<args, max_len, disk, files, tried, code, tokens>>

\* Ctrl-W: game.pop_word()
KeyCtrlW == pc = "play" /\ PopWord

\* Ctrl-C: break
KeyCtrlC ==
    /\ pc = "play"
    /\ pc' = "exit"
    /\ SameGame
    /\ UNCHANGED <<args, cfg, max_len, disk, files, tried, code, tokens,
                   outcome, selected_words>>

\* KeyCode::Char(c)
KeyChar(c) ==
    /\ pc = "play"
    /\ IF state.tag = "Running" THEN Push(c)
       ELSE IF state.tag = "Stopped" THEN Start
       ELSE IF c = "y" THEN
           /\ sessions < MaxSessions
           /\ \E o \in WordsOutcomes(cfg) :
                 /\ outcome' = o
                 /\ IF o.tag = "Ok" THEN
                        /\ selected_words' = o.words
                        /\ GameNew(o.words, cfg)
                        /\ typed' = OffScript
                        /\ pc' = "play"
                    ELSE
                        /\ pc' = IF o.tag = "Err" THEN "exit" ELSE "panicked"
                        /\ SameGame
                        /\ UNCHANGED selected_words
           /\ UNCHANGED <<args, cfg, max_len, disk, files, tried, code, tokens>>
       ELSE IF c = "r" THEN
           /\ sessions < MaxSessions
           /\ GameNew(selected_words, cfg)
           /\ typed' = 0
           /\ UNCHANGED <<pc, args, cfg, max_len, disk, files, tried, code,
                          tokens, outcome, selected_words>>
       ELSE IF c = "n" THEN
           /\ pc' = "exit"
           /\ SameGame
           /\ UNCHANGED <<args, cfg, max_len, disk, files, tried, code,
                          tokens, outcome, selected_words>>
       ELSE UNCHANGED vars

\* Enter: game.start() if the state is Stopped, nothing otherwise.
KeyEnter ==
    /\ pc = "play"
    /\ IF state.tag = "Stopped" THEN Start ELSE UNCHANGED vars

\* Backspace: game.pop()
KeyBackspace == pc = "play" /\ Pop

KeyCharAny == \E c \in DriverKeys : KeyChar(c)

NextDriver ==
    PlayStart \/ KeyCtrlW \/ KeyCtrlC \/ KeyCharAny \/ KeyEnter \/ KeyBackspace

SpecDriver == InitDriver /\ [][NextDriver]_vars

\* ------------------------------------------------------------------ claims

\* The steps of the three editing calls the driver makes on a key event.
EditStep == PushAny \/ Pop \/ PopWord

\* min(max(x, lo), hi)
Clamp(x, lo, hi) == IF x < lo THEN lo ELSE IF x > hi THEN hi ELSE x

\* The number of words of a text whose words hold no space and are joined
\* by single spaces.
NumWords(s) == 1 + Cardinality({i \in 1..Len(s) : s[i] = " "})

\* C1: in every state any sequence of push, pop and pop_word calls reaches,
\* the sequence input() returns is no longer than the target text has
\* characters.
C1_DiffWithinTarget == Len(GameInput) <= CharCount(text)

\* A state where the buffer holds more characters than the target and the
\* diff is cut to the target's length.
C1_Witness ==
    /\ CharCount(input) > CharCount(text)
    /\ Len(GameInput) = CharCount(text)

\* C2: the stored input buffer is never longer (in bytes, the measure the
\* trim of push compares) than the target text.
C2_BufferWithinTarget == StrLen(input) <= StrLen(text)

\* C3: while exactly the characters of the target have been pushed in order
\* since Game::new, the mistake counter is 0, the state is Running before
\* the last character and Finished after it, with 0 mistakes and the
\* number of words given to the constructor.
C3_ExactTyping ==
    typed # OffScript =>
        /\ mistakes = 0
        /\ typed < Len(text) => state.tag = "Running"
        /\ typed = Len(text) =>
              /\ state.tag = "Finished"
              /\ state.mistakes = 0
              /\ state.word_count = NumWords(text)

\* C4: the mistake counter never decreases, pop and pop_word leave it
\* unchanged, and a push of the target character at the cursor (the
\* position after the characters typed so far) leaves it unchanged.
C4_MistakesNeverRefunded ==
    [][/\ mistakes' >= mistakes
       /\ (Pop \/ PopWord) => mistakes' = mistakes
       /\ \A c \in Keys :
             (Push(c) /\ SkipNext(text, CharCount(input)) = c)
                 => mistakes' = mistakes]_vars

\* C5: in strict mode a push, pop or pop_word step that makes the state
\* Finished is a push that leaves the input buffer equal to the target.
C5_StrictEndsOnMatch ==
    [][(strict /\ EditStep /\ state' # state /\ state'.tag = "Finished")
          => (PushAny /\ input' = text)]_vars

\* A strict session that ended after mistakes were made and corrected.
C5_Witness ==
    /\ strict
    /\ state.tag = "Finished"
    /\ state.mistakes > 0
    /\ input = text

\* C6: in a Running non-strict session whose buffer holds as many
\* characters as the target and differs from it, a push of a space
\* finishes the session and counts no mistake; and should_quit is true
\* only in non-strict mode, for a space, with a buffer that holds at least
\* as many characters as the target.
C6_TrailingSpaceQuits ==
    [][\A c \in Keys : (state.tag = "Running" /\ Push(c)) =>
          /\ (/\ ~strict
              /\ c = " "
              /\ CharCount(input) = CharCount(text)
              /\ input # text)
                 => (state'.tag = "Finished" /\ mistakes' = mistakes)
          /\ (~(SkipArm(c) \/ IgnoredArm(c)) /\ ShouldQuit(c))
                 => (~strict /\ c = " " /\ CharCount(input) >= CharCount(text))
      ]_vars

\* Game::push calls finish() for the character c.
PushCallsFinish(c) ==
    IF SkipArm(c) /\ ~AtWordStart THEN SkipPathFinishes
    ELSE IF IgnoredArm(c) THEN FALSE
    ELSE NormalPathFinishes(c)

\* C7: once the state is Finished, a call of finish(), made directly or by
\* push, leaves the stored statistics as they are.
C7_FinishIdempotent ==
    [][(/\ state.tag = "Finished"
        /\ (Finish \/ \E c \in Keys : Push(c) /\ PushCallsFinish(c)))
          => state' = state]_vars

\* C8: in a Finished state with n target characters and m stored mistakes,
\* the stored accuracy is clamp(100 - 100 * m / n, 0, 100).
C8_AccuracyClamped ==
    state.tag = "Finished" =>
        LET n == CharCount(text)
            m == state.mistakes
        IN  /\ state.accuracy.den = n
            /\ state.accuracy.num = Clamp(100 * n - 100 * m, 0, 100 * n)
            /\ 0 <= state.accuracy.num
            /\ state.accuracy.num <= 100 * state.accuracy.den

\* A session that finished with more mistakes than the target has
\* characters.
C8_Witness ==
    /\ state.tag = "Finished"
    /\ state.mistakes > CharCount(text)

\* C9: after a push of a space that takes the word-skip path, one pop()
\* leaves the input buffer as it was before that push.
C9_PopUndoesSkip ==
    [][(Push(" ") /\ SkipArm(" ") /\ ~AtWordStart)
          => PopResult(input') = input]_vars

\* C10: a push, pop, pop_word or finish call on a Finished session leaves
\* it Finished.
C10_FinishedIsTerminal ==
    [][(state.tag = "Finished" /\ (EditStep \/ Finish))
          => state'.tag = "Finished"]_vars

\* C11: a push, pop or pop_word call on a Finished session leaves the input
\* buffer, the mistake counter and the stored statistics unchanged.
C11_FinishedImmutable ==
    [][(state.tag = "Finished" /\ EditStep)
          => (input' = input /\ mistakes' = mistakes /\ state' = state)]_vars

\* C16: Config::from_iter returns no configuration with word_count = 0, and
\* the session the driver holds, constructed at the start, on 'y' or on 'r',
\* is built from exactly config.word_count >= 1 tokens, none empty, so that
\* its target text is not empty.
C16_ValidSession ==
    /\ cfg.tag = "Ok" => cfg.word_count >= 1
    /\ sessions > 0 =>
          /\ cfg.tag = "Ok"
          /\ Len(selected_words) = cfg.word_count
          /\ \A i \in 1..Len(selected_words) : selected_words[i] # <<>>
          /\ text = Join(selected_words)
          /\ word_count = cfg.word_count
          /\ text # <<>>

\* The driver holds its second session, of two words.
C16_Witness ==
    /\ pc = "play"
    /\ sessions = 2
    /\ word_count = 2

\* C17: a session whose target has n characters, finished after t > 0 whole
\* seconds, stores cpm = floor(n * 60 / t) and wpm = floor(n * 60 / (5 * t)),
\* whatever its mistakes and its input.
C17_SpeedIsFloor ==
    (state.tag = "Finished" /\ state.elapsed > 0) =>
        LET n == CharCount(text)
            t == state.elapsed
        IN  /\ state.cpm = (n * 60) \div t
            /\ state.wpm = (n * 60) \div (5 * t)

\* The candidate files of the call of words().
Candidates == FindFiles(disk, cfg.file_extension)

\* The tokens the candidate f yields, after truncation and tokenizing; a
\* file words() cannot examine yields none.
Yield(f) == IF FilePanics(f) THEN <<>> ELSE CodeToWords(Truncated(f))

\* C12: when words() succeeds, the list it returns has exactly
\* config.word_count tokens and is a window [r, r + word_count) of the
\* tokens of one candidate file, the one examined last; when that file has
\* exactly word_count tokens, the list is all of them.
C12_WindowOfOneFile ==
    outcome.tag = "Ok" =>
        LET f  == tried[Len(tried)]
            ts == Yield(f)
            wc == cfg.word_count
        IN  /\ f \in Candidates
            /\ tokens = ts
            /\ Len(outcome.words) = wc
            /\ \E r \in 0..(Len(ts) - wc) : outcome.words = SubSeq(ts, r + 1, r + wc)
            /\ Len(ts) = wc => outcome.words = ts

\* words() succeeded on the second file it tried, with a window that does
\* not start at the first token of a file that has more than word_count.
C12_Witness ==
    /\ outcome.tag = "Ok"
    /\ Len(tried) = 2
    /\ Len(tokens) > cfg.word_count
    /\ outcome.words # SubSeq(tokens, 1, cfg.word_count)

\* C13: when the call of words() has ended, it has returned NoFiles exactly
\* when there is no candidate, InsufficientWords exactly when there are
\* candidates and each yields fewer than word_count tokens, and it has
\* succeeded when some candidate yields word_count tokens or more.
C13_OutcomeDetermined ==
    pc \in {"returned", "panicked"} =>
        LET enough == {f \in Candidates : Len(Yield(f)) >= cfg.word_count}
        IN  /\ outcome = Err("NoFiles") <=> Candidates = {}
            /\ outcome = Err("InsufficientWords")
                  <=> (Candidates # {} /\ enough = {})
            /\ enough # {} => outcome.tag = "Ok"

\* C14: no file is examined twice, an examined file is no longer in the
\* candidate set, the loop makes no more iterations than there are
\* candidates, and the call ends by returning a result.
C14_LoopReturns ==
    /\ \A i, j \in 1..Len(tried) : tried[i] = tried[j] => i = j
    /\ \A i \in 1..Len(tried) : tried[i] \notin files
    /\ Len(tried) <= Cardinality(Candidates)
    /\ pc \notin {"words", "loop"} => outcome.tag \in {"Ok", "Err"}

\* The reference tokenizer, reading the content s character by character
\* from position i: cur is the piece being read, cut tells whether the rest
\* of the line is dropped, acc holds the pieces kept so far.
RECURSIVE RefScan(_, _, _, _, _)
RefScan(s, i, cur, cut, acc) ==
    LET kept == IF cur = <<>> THEN acc ELSE Append(acc, cur)
    IN  IF i > Len(s) THEN kept
        ELSE IF s[i] = "\n" THEN RefScan(s, i + 1, <<>>, FALSE, kept)
        ELSE IF cut THEN RefScan(s, i + 1, <<>>, TRUE, acc)
        ELSE IF s[i] = "/" /\ i < Len(s) /\ s[i + 1] = "/"
             THEN RefScan(s, i + 2, <<>>, TRUE, kept)
        ELSE IF s[i] \in {" ", "\t"} THEN RefScan(s, i + 1, <<>>, FALSE, kept)
        ELSE RefScan(s, i + 1, Append(cur, s[i]), FALSE, acc)

RefTokens(s) == RefScan(s, 1, <<>>, FALSE, <<>>)

\* The token t holds "//".
HasComment(t) == \E i \in 1..(Len(t) - 1) : t[i] = "/" /\ t[i + 1] = "/"

\* C15: code_to_words returns what the reference tokenizer returns; no
\* token is empty, holds a whitespace character or holds "//"; and
\* "a //b c d" gives ["a"], "a b c" gives ["a", "b", "c"].
C15_Tokenizer ==
    pc = "tokenized" =>
        /\ tokens = RefTokens(code)
        /\ \A i \in 1..Len(tokens) :
              /\ tokens[i] # <<>>
              /\ \A j \in 1..Len(tokens[i]) : tokens[i][j] \notin {" ", "\n", "\t"}
              /\ ~HasComment(tokens[i])
        /\ code = <<"a", " ", "/", "/", "b", " ", "c", " ", "d">>
              => tokens = << <<"a">> >>
        /\ code = <<"a", " ", "b", " ", "c">>
              => tokens = << <<"a">>, <<"b">>, <<"c">> >>

\* A content of two lines, a comment on the first, tokenized.
C15_Witness ==
    /\ pc = "tokenized"
    /\ \E i \in 1..Len(code) : code[i] = "\n"
    /\ FindComment(SplitLines(code)[1]) # NotFound
    /\ Len(tokens) >= 2

\* The cursor: the position after the characters typed so far.
Cursor == CharCount(input)

\* The cursor is inside a word of the target, past the word's first character.
CursorInsideWord ==
    /\ Cursor > 0
    /\ SkipNext(text, Cursor) \notin {None, " "}
    /\ SkipNext(text, Cursor - 1) # " "

\* The cursor is on the first character of a word of the target.
CursorOnWordStart ==
    /\ SkipNext(text, Cursor) \notin {None, " "}
    /\ (Cursor = 0 \/ SkipNext(text, Cursor - 1) = " ")

\* C18: with skip_word_on_space on, a push of a space while the cursor is
\* inside a word appends exactly k + 1 spaces to the buffer and adds k + 1
\* to the mistake counter, k being the number of target characters from the
\* cursor to the end of the word; nothing else is appended.
C18_WordSkipFill ==
    [][(skip_word_on_space /\ CursorInsideWord /\ Push(" ")) =>
          LET k == TakeWhileNotSpaceCount(text, Cursor)
          IN  /\ input' = input \o Spaces(k + 1)
              /\ mistakes' = mistakes + k + 1]_vars

\* C19: with skip_word_on_space on, a push of a space while the cursor is
\* on the first character of a word leaves the input buffer and the mistake
\* counter unchanged and does not finish the session.
C19_WordStartIgnored ==
    [][(skip_word_on_space /\ CursorOnWordStart /\ Push(" ")) =>
          /\ input' = input
          /\ mistakes' = mistakes
          /\ (state.tag # "Finished" => state'.tag # "Finished")]_vars

\* The buffer r is what the claim C20 says pop() leaves of the buffer s.
PopContract(s, r) ==
    LET n == Len(r)
    IN  /\ s = <<>> => r = <<>>
        /\ (s # <<>> /\ s[Len(s)] # " ") => r = SubSeq(s, 1, Len(s) - 1)
        /\ (s # <<>> /\ s[Len(s)] = " ") =>
              /\ n < Len(s)
              /\ r = SubSeq(s, 1, n)
              /\ \A i \in (n + 1)..Len(s) : s[i] = " "
              /\ n > 0 => s[n] # " "

\* C20: pop() leaves an empty buffer empty, removes exactly the last
\* character when it is not a space, and removes the whole trailing run of
\* spaces, and nothing else, when the last character is a space.
C20_PopContract == [][Pop => PopContract(input, input')]_vars

\* A buffer that ends with a run of two or more spaces after a character
\* that is not a space.
C20_Witness ==
    /\ Len(input) >= 3
    /\ input[Len(input)] = " "
    /\ input[Len(input) - 1] = " "
    /\ \E i \in 1..Len(input) : input[i] # " "

\* The buffer r is what the claim C21 says pop_word() leaves of the buffer
\* s: a prefix of s that is empty or ends with a space, the characters
\* removed being the maximal run of characters that are no spaces followed
\* by the maximal trailing run of spaces.
PopWordContract(s, r) ==
    LET n == Len(r)
    IN  /\ n <= Len(s)
        /\ r = SubSeq(s, 1, n)
        /\ n > 0 => s[n] = " "
        /\ \E k \in n..Len(s) :
              /\ k > 0 => s[k] # " "
              /\ \A i \in (n + 1)..k : s[i] # " "
              /\ \A i \in (k + 1)..Len(s) : s[i] = " "

\* C21: pop_word() removes the trailing run of spaces and the run of
\* characters that are no spaces before it, and nothing more: the buffer
\* left is a prefix of the old one that is empty or ends with a space, and
\* an empty buffer stays empty.
C21_PopWordContract == [][PopWord => PopWordContract(input, input')]_vars

\* The values a well-defined session holds.
SessionOK ==
    /\ input \in Seq(Keys)
    /\ mistakes \in Nat
    /\ state.tag \in {"Running", "Finished"}
    /\ state.elapsed \in Nat
    /\ state.tag = "Finished" =>
          /\ state.wpm \in Nat
          /\ state.cpm \in Nat
          /\ state.mistakes \in Nat
          /\ state.word_count = word_count
          /\ state.accuracy.num \in Nat

\* C22: for every target text, the empty one included, and every flag
\* combination, in every state a sequence of push, pop, pop_word, start and
\* finish calls reaches, no push evaluates current_index - 1 below zero,
\* pop_word does not evaluate its subtraction below zero, and the session
\* holds well-defined values.
C22_NoFault ==
    /\ \A c \in Keys : ~PushUnderflow(c)
    /\ ~PopWordUnderflow
    /\ SessionOK

\* A session on an empty target text that finished after mistakes.
C22_Witness ==
    /\ text = <<>>
    /\ state.tag = "Finished"
    /\ mistakes > 0

\* C23: the state of the session the driver holds is never Stopped, it is
\* Running or Finished, so that the driver's branches for Stopped never
\* run; and a step that constructs a session leaves it Running with an
\* empty buffer and no mistake.
C23_NeverStopped ==
    /\ [](state.tag # "Stopped" /\
          (sessions > 0 => state.tag \in {"Running", "Finished"}))
    /\ [][sessions' # sessions =>
             (state'.tag = "Running" /\ input' = <<>> /\ mistakes' = 0)]_vars

\* The driver holds its second session, constructed after the first one
\* was finished, and a character has been typed in it.
C23_Witness ==
    /\ pc = "play"
    /\ sessions = 2
    /\ state.tag = "Running"
    /\ input # <<>>

\* C24: when words() succeeds, the target text built from the result, the
\* tokens joined by single spaces, has at most max_len characters.
C24_TextFitsBudget ==
    outcome.tag = "Ok" => CharCount(Join(outcome.words)) <= max_len

\* words() succeeded on a file it had to cut, and the text fills the budget.
C24_Witness ==
    /\ outcome.tag = "Ok"
    /\ CharCount(ReadCode(tried[Len(tried)])) > max_len
    /\ CharCount(Join(outcome.words)) = max_len

====
